---- MODULE Spec2Model ----
(***************************************************************************)
(* Board/selection adapter of the chess GUI (src/chess-gui/src/main.rs):   *)
(* the coordinate converters, the per-frame snapshot rebuild and the       *)
(* two-click selection state machine driven by mouse_button_up_event.      *)
(*                                                                         *)
(* Text is modelled as a sequence of one-character strings.  A usize is    *)
(* modelled by a small integer: n >= 0 stands for n, and n < 0 stands for  *)
(* 2^64 + n (the value after wrapping), so that wrapped results of         *)
(* unchecked builds stay distinguishable from every in-range value.        *)
(***************************************************************************)
EXTENDS Integers, Sequences, FiniteSets, TLC

VARIABLES
    board,            \* AppState.board: 8x8 grid of Option<Piece>
    game,             \* AppState.game: the external rules engine
    highlight_poses,  \* AppState.highlight_poses: Vec<(usize, usize)>
    highlight_piece,  \* AppState.highlight_piece: Option<Piece>
    status,           \* "running", or "panicked" once a handler panicked
    overflow_checks,  \* build profile: TRUE = arithmetic overflow panics
    event,            \* the event handled last (history)
    calls,            \* engine calls issued by the event handled last (history)
    query,            \* the latest get_possible_moves call (history)
    pure_in,          \* argument of a converter call
    pure_out          \* outcome of a converter call

vars == <<board, game, highlight_poses, highlight_piece, status,
          overflow_checks, event, calls, query, pure_in, pure_out>>

---------------------------------------------------------------------------
(* Program constants *)

GRID_SIZE == 8

GRID_CELL_SIZE == 90

NONE == 0

KING == 1

QUEEN == 2

BISHOP == 3

KNIGHT == 4

ROOK == 5

PAWN == 6

(* Bounds of the model *)

MaxPly == 1

---------------------------------------------------------------------------
(* Option, text and usize helpers *)

Idx == 0 .. (GRID_SIZE - 1)

None == <<>>

Some(v) == <<v>>

IsNone(o) == o = <<>>

Unwrap(o) == o[1]

Contains(s, v) == \E k \in 1 .. Len(s) : s[k] = v

Range(s) == {s[k] : k \in 1 .. Len(s)}

UpperLetters ==
    <<"A", "B", "C", "D", "E", "F", "G", "H", "I", "J", "K", "L", "M",
      "N", "O", "P", "Q", "R", "S", "T", "U", "V", "W", "X", "Y", "Z">>

LowerLetters ==
    <<"a", "b", "c", "d", "e", "f", "g", "h", "i", "j", "k", "l", "m",
      "n", "o", "p", "q", "r", "s", "t", "u", "v", "w", "x", "y", "z">>

DigitChars == <<"0", "1", "2", "3", "4", "5", "6", "7", "8", "9">>

\* char::is_uppercase
IsUppercase(c) == \E k \in 1 .. 26 : UpperLetters[k] = c

\* char::to_ascii_lowercase
ToAsciiLowercase(c) ==
    IF IsUppercase(c)
    THEN LowerLetters[CHOOSE k \in 1 .. 26 : UpperLetters[k] = c]
    ELSE c

\* char::to_digit(10): Some(d) for a decimal digit, None otherwise
ToDigit(c) ==
    IF \E k \in 1 .. 10 : DigitChars[k] = c
    THEN Some((CHOOSE k \in 1 .. 10 : DigitChars[k] = c) - 1)
    ELSE None

RECURSIVE DecimalDigits(_)
DecimalDigits(n) ==
    IF n < 10 THEN <<DigitChars[n + 1]>>
    ELSE Append(DecimalDigits(n \div 10), DigitChars[(n % 10) + 1])

\* usize::to_string.  2^64 = 1844674407370955 * 10000 + 1616, so the wrapped
\* value 2^64 + n (-1616 <= n < 0) prints as that prefix and four more digits.
UsizeToString(n) ==
    IF n >= 0 THEN DecimalDigits(n)
    ELSE <<"1", "8", "4", "4", "6", "7", "4", "4", "0", "7", "3", "7", "0",
           "9", "5", "5">> \o Tail(DecimalDigits(10000 + 1616 + n))

\* a - b on usize: overflows when the true difference is negative
USub(a, b) == [overflow |-> (a >= 0 /\ (b < 0 \/ b > a)) \/ (a < 0 /\ b < 0 /\ b > a),
               val |-> a - b]

\* a + b on usize: overflows when the true sum reaches 2^64
UAdd(a, b) == [overflow |-> a < 0 /\ a + b >= 0,
               val |-> a + b]

\* (p / 90.0) as usize: the cast truncates toward zero and saturates, so a
\* negative quotient becomes 0
F32AsUsize(p) == IF p < 0 THEN 0 ELSE p \div GRID_CELL_SIZE

Ok(v) == [ok |-> TRUE, val |-> v]

Panic == [ok |-> FALSE, val |-> <<>>]

---------------------------------------------------------------------------
(* Piece and the coordinate converters *)

PieceNew(role, position, is_white) ==
    [role |-> role, position |-> position, is_white |-> is_white]

Files == <<"A", "B", "C", "D", "E", "F", "G", "H">>

\* to_file_rank(_column, _row): rank = 7 - _column + 1, file = files[_row]
ToFileRank(_column, _row, checks) ==
    LET s1 == USub(7, _column)
        s2 == UAdd(s1.val, 1)
    IN  IF checks /\ (s1.overflow \/ s2.overflow) THEN Panic
        ELSE IF _row \notin Idx THEN Panic
        ELSE Ok(<<Files[_row + 1]>> \o UsizeToString(s2.val))

FileColumn(c) ==
    CASE c = "A" -> 0
      [] c = "B" -> 1
      [] c = "C" -> 2
      [] c = "D" -> 3
      [] c = "E" -> 4
      [] c = "F" -> 5
      [] c = "G" -> 6
      [] c = "H" -> 7
      [] OTHER -> 99

\* to_row_column returning (row, column)
ToRowColumnSwapped(filerank, checks) ==
    IF Len(filerank) < 2 THEN Panic
    ELSE LET column == FileColumn(filerank[1])
             digit == ToDigit(filerank[2])
         IN  IF IsNone(digit) THEN Panic
             ELSE LET d1 == USub(Unwrap(digit), 1)
                      r == USub(7, d1.val)
                  IN  IF checks /\ (d1.overflow \/ r.overflow) THEN Panic
                      ELSE Ok(<<r.val, column>>)

\* to_row_column(filerank): (column, row), row = 7 - (digit - 1)
ToRowColumn(filerank, checks) ==
    IF Len(filerank) < 2 THEN Panic
    ELSE LET column == FileColumn(filerank[1])
             digit == ToDigit(filerank[2])
         IN  IF IsNone(digit) THEN Panic
             ELSE LET d1 == USub(Unwrap(digit), 1)
                      r == USub(7, d1.val)
                  IN  IF checks /\ (d1.overflow \/ r.overflow) THEN Panic
                      ELSE Ok(<<column, r.val>>)

\* to_tuple_moves(_moves): every move converted, in order; the first
\* conversion that panics ends the call
RECURSIVE PushMoves(_, _)
PushMoves(_moves, checks) ==
    IF _moves = <<>> THEN <<>>
    ELSE <<ToRowColumn(Head(_moves), checks).val>> \o PushMoves(Tail(_moves), checks)

\* to_tuple_moves whose loop stops one move early
ToTupleMovesDropsLast(_moves, checks) ==
    IF \E k \in 1 .. Len(_moves) : ~ToRowColumn(_moves[k], checks).ok
    THEN Panic
    ELSE Ok(SubSeq(PushMoves(_moves, checks), 1, Len(_moves) - 1))

ToTupleMoves(_moves, checks) ==
    IF \E k \in 1 .. Len(_moves) : ~ToRowColumn(_moves[k], checks).ok
    THEN Panic
    ELSE Ok(PushMoves(_moves, checks))

---------------------------------------------------------------------------
(* load_board *)

\* the index with the line separators not skipped
StrIndexNoSeparator(i, j) == i * 8 + j

\* the index load_board reads for row i, column j
StrIndex(i, j) == i * 8 + (j + i)

\* chars().nth(n)
Nth(s, n) == IF n < Len(s) THEN Some(s[n + 1]) ELSE None

RoleOf(c) ==
    CASE c = "k" -> KING
      [] c = "q" -> QUEEN
      [] c = "b" -> BISHOP
      [] c = "n" -> KNIGHT
      [] c = "r" -> ROOK
      [] c = "p" -> PAWN
      [] OTHER -> NONE

\* the value load_board stores in board[i][j] for the character it read
LoadCell(piece, i, j) ==
    IF piece # "*"
    THEN Some(PieceNew(RoleOf(ToAsciiLowercase(piece)), <<i, j>>, IsUppercase(piece)))
    ELSE None

\* board[i][j]; the grid is held as a sequence of rows, each a sequence of
\* cells, so row i is the (i + 1)-th
At(b, i, j) == b[i + 1][j + 1]

\* load_board, one cell: nth(..).unwrap() panics at the first index beyond
\* the string, and the cells from there on stay as they were (the cells are
\* written in the order of their indices)
LoadedCell(old, board_str, i, j) ==
    IF ~IsNone(Nth(board_str, StrIndex(i, j)))
    THEN LoadCell(Unwrap(Nth(board_str, StrIndex(i, j))), i, j)
    ELSE At(old, i, j)

LoadedRow(old, s, i) ==
    <<LoadedCell(old, s, i, 0), LoadedCell(old, s, i, 1), LoadedCell(old, s, i, 2),
      LoadedCell(old, s, i, 3), LoadedCell(old, s, i, 4), LoadedCell(old, s, i, 5),
      LoadedCell(old, s, i, 6), LoadedCell(old, s, i, 7)>>

\* load_board
LoadBoard(old, board_str) ==
    [ok |-> \A i \in Idx, j \in Idx : ~IsNone(Nth(board_str, StrIndex(i, j))),
     val |-> <<LoadedRow(old, board_str, 0), LoadedRow(old, board_str, 1),
               LoadedRow(old, board_str, 2), LoadedRow(old, board_str, 3),
               LoadedRow(old, board_str, 4), LoadedRow(old, board_str, 5),
               LoadedRow(old, board_str, 6), LoadedRow(old, board_str, 7)>>]

\* the keys of AppState.sprites (load_sprites)
SpriteKeys == {<<w, r>> : w \in BOOLEAN, r \in {KING, QUEEN, ROOK, PAWN, BISHOP, KNIGHT}}

\* the piece loop of draw: sprites.get(..).unwrap() panics on a missing key
DrawPiecesOk(b) ==
    \A row \in Idx, col \in Idx :
        ~IsNone(At(b, row, col)) =>
            <<Unwrap(At(b, row, col)).is_white, Unwrap(At(b, row, col)).role>> \in SpriteKeys

---------------------------------------------------------------------------
(* The external rules engine (jblomlof_chess::Game), as a stub: a small     *)
(* position in which knights jump and pawns step forward.  Only its        *)
(* interface is used by the adapter.                                       *)

\* the engine's name of the square in row i, column j of its board string:
\* row 0 is rank 8, column 0 is file A
SquareName(i, j) == <<Files[j + 1], DigitChars[(8 - i) + 1]>>

\* the (row, column) a square name stands for, None for anything else
SquareOf(name) ==
    IF \E i \in Idx, j \in Idx : SquareName(i, j) = name
    THEN Some(CHOOSE sq \in Idx \X Idx : SquareName(sq[1], sq[2]) = name)
    ELSE None

EmptyRow == <<"*", "*", "*", "*", "*", "*", "*", "*", "\n">>

\* black knight H8, black pawn B3, white pawn B2, white knight A1
StartBoard ==
    <<"*", "*", "*", "*", "*", "*", "*", "n", "\n">> \o
    EmptyRow \o EmptyRow \o EmptyRow \o EmptyRow \o
    <<"*", "p", "*", "*", "*", "*", "*", "*", "\n">> \o
    <<"*", "P", "*", "*", "*", "*", "*", "*", "\n">> \o
    <<"N", "*", "*", "*", "*", "*", "*", "*", "\n">>

\* Game::new
GameNew == [board_str |-> StartBoard, white_turn |-> TRUE, ply |-> 0]

\* Game::get_board
GetBoard(g) == g.board_str

\* Game::is_white_turn
IsWhiteTurn(g) == g.white_turn

CellAt(g, i, j) == g.board_str[9 * i + j + 1]

KnightJumps ==
    << <<-2, -1>>, <<-2, 1>>, <<-1, -2>>, <<-1, 2>>,
       <<1, -2>>, <<1, 2>>, <<2, -1>>, <<2, 1>> >>

RECURSIVE NamesOf(_)
NamesOf(squares) ==
    IF squares = <<>> THEN <<>>
    ELSE <<SquareName(Head(squares)[1], Head(squares)[2])>> \o NamesOf(Tail(squares))

\* Game::get_possible_moves: None when the square holds no piece of the side
\* to move, otherwise the destinations, named, in the engine's order
GetPossibleMoves(g, name) ==
    LET sq == SquareOf(name) IN
    IF IsNone(sq) THEN None
    ELSE LET i == Unwrap(sq)[1]
             j == Unwrap(sq)[2]
             c == CellAt(g, i, j)
             Free(d) == d[1] \in Idx /\ d[2] \in Idx /\ CellAt(g, d[1], d[2]) = "*"
             Enemy(d) == d[1] \in Idx /\ d[2] \in Idx /\ CellAt(g, d[1], d[2]) # "*"
                         /\ IsUppercase(CellAt(g, d[1], d[2])) # IsUppercase(c)
             JumpOk(d) == Free(d) \/ Enemy(d)
             Jump(k) == <<i + KnightJumps[k][1], j + KnightJumps[k][2]>>
             Jumps == <<Jump(1), Jump(2), Jump(3), Jump(4), Jump(5), Jump(6), Jump(7), Jump(8)>>
             Step == <<(IF IsUppercase(c) THEN i - 1 ELSE i + 1), j>>
             Dests == IF ToAsciiLowercase(c) = "n" THEN SelectSeq(Jumps, JumpOk)
                      ELSE IF ToAsciiLowercase(c) = "p" /\ Free(Step) THEN <<Step>>
                      ELSE <<>>
         IN  IF c = "*" \/ IsUppercase(c) # g.white_turn THEN None
             ELSE Some(NamesOf(Dests))

\* Game::make_move: a move the engine offers is played, anything else ignored
MakeMove(g, from, to) ==
    LET moves == GetPossibleMoves(g, from) IN
    IF IsNone(moves) \/ ~Contains(Unwrap(moves), to) THEN g
    ELSE LET a == Unwrap(SquareOf(from))
             b == Unwrap(SquareOf(to))
         IN  [board_str |-> [g.board_str EXCEPT ![9 * a[1] + a[2] + 1] = "*",
                                                 ![9 * b[1] + b[2] + 1] = CellAt(g, a[1], a[2])],
              white_turn |-> ~g.white_turn,
              ply |-> g.ply + 1]

---------------------------------------------------------------------------
(* History records *)

Call(op, from, to, ret) == [op |-> op, from |-> from, to |-> to, ret |-> ret]

NoEvent == [kind |-> "none", button |-> "None", x |-> 0, y |-> 0]

DrawEvent == [kind |-> "draw", button |-> "None", x |-> 0, y |-> 0]

UpdateEvent == [kind |-> "update", button |-> "None", x |-> 0, y |-> 0]

ClickEvent(button, x, y) == [kind |-> "click", button |-> button, x |-> x, y |-> y]

\* fresh: no make_move was issued since the call
NoQuery == [asked |-> FALSE, from |-> <<>>, ret |-> None, fresh |-> FALSE]

PureIdle == [fn |-> "none", sq |-> <<>>, name |-> <<>>]

PureNone == [fn |-> "none", ok |-> TRUE, sq |-> <<>>, name |-> <<>>]

---------------------------------------------------------------------------
(* mouse_button_up_event *)

\* origin of the move: to_file_rank(position.0, position.1) of the selection
MoveOrigin(piece, checks) ==
    ToFileRank(piece.position[1], piece.position[2], checks)

\* destination of the move with the arguments in the order of line 314
MoveDestinationSwapped(board_row, board_column, checks) ==
    ToFileRank(board_row, board_column, checks)

\* destination of the move: to_file_rank(board_column, board_row)
MoveDestination(board_row, board_column, checks) ==
    ToFileRank(board_column, board_row, checks)

\* the move branch forgetting to clear the highlights
SelectionAfterMoveKeepsHighlights(poses, piece) == [poses |-> poses, piece |-> None]

\* selection state after the move was issued
SelectionAfterMove(poses, piece) == [poses |-> <<>>, piece |-> None]

\* what the handler leaves when it changes nothing
Keep ==
    [poses |-> highlight_poses, piece |-> highlight_piece, game |-> game,
     status |-> "running", calls |-> <<>>, query |-> query]

\* first branch: the clicked square is highlighted
MoveBranch(board_row, board_column) ==
    IF IsNone(highlight_piece) THEN [Keep EXCEPT !.status = "panicked"]
    ELSE LET from == MoveOrigin(Unwrap(highlight_piece), overflow_checks)
             to == MoveDestination(board_row, board_column, overflow_checks)
         IN  IF ~from.ok \/ ~to.ok THEN [Keep EXCEPT !.status = "panicked"]
             ELSE LET after == SelectionAfterMove(highlight_poses, highlight_piece)
                  IN  [Keep EXCEPT !.game = MakeMove(game, from.val, to.val),
                                   !.calls = <<Call("make_move", from.val, to.val, None)>>,
                                   !.query = [query EXCEPT !.fresh = FALSE],
                                   !.piece = after.piece,
                                   !.poses = after.poses]

\* second branch: the snapshot holds a piece on the clicked square
SelectBranch(board_row, board_column) ==
    LET piece == Unwrap(At(board, board_column, board_row))
        c1 == Call("is_white_turn", <<>>, <<>>, None)
    IN  IF piece.is_white # IsWhiteTurn(game)
        THEN [Keep EXCEPT !.poses = <<>>, !.calls = <<c1>>]
        ELSE LET file_rank == ToFileRank(board_column, board_row, overflow_checks)
                 moves == GetPossibleMoves(game, file_rank.val)
                 c2 == Call("get_possible_moves", file_rank.val, <<>>, moves)
                 asked == [Keep EXCEPT !.poses = <<>>, !.calls = <<c1, c2>>,
                                       !.query = [asked |-> TRUE, from |-> file_rank.val,
                                                  ret |-> moves, fresh |-> TRUE]]
             IN  IF ~file_rank.ok
                 THEN [Keep EXCEPT !.poses = <<>>, !.calls = <<c1>>, !.status = "panicked"]
                 ELSE IF IsNone(moves) THEN asked
                 ELSE LET t == ToTupleMoves(Unwrap(moves), overflow_checks)
                      IN  IF ~t.ok THEN [asked EXCEPT !.status = "panicked"]
                          ELSE [asked EXCEPT !.poses = t.val,
                                             !.piece = At(board, board_column, board_row)]

\* the handler's outcome for one event
ClickResult(button, x, y) ==
    IF button # "Left" THEN Keep
    ELSE LET board_row == F32AsUsize(x)
             board_column == F32AsUsize(y)
             tmp == ToFileRank(board_row, board_column, overflow_checks)
         IN  IF ~tmp.ok \/ board_column \notin Idx \/ board_row \notin Idx
             THEN [Keep EXCEPT !.status = "panicked"]
             ELSE IF Contains(highlight_poses, <<board_row, board_column>>)
             THEN MoveBranch(board_row, board_column)
             ELSE IF ~IsNone(At(board, board_column, board_row))
             THEN SelectBranch(board_row, board_column)
             ELSE Keep

OtherButtons == {"Right", "Middle"}

\* one pixel inside every tile, one left of/above the window, one beyond it
Pixels == {-45} \cup {GRID_CELL_SIZE * k + 45 : k \in 0 .. GRID_SIZE}

MouseButtonUpEvent(button, x, y) ==
    /\ status = "running"
    /\ \E r \in {ClickResult(button, x, y)} :
        /\ r.game.ply <= MaxPly
        /\ highlight_poses' = r.poses
        /\ highlight_piece' = r.piece
        /\ game' = r.game
        /\ status' = r.status
        /\ calls' = r.calls
        /\ query' = r.query
    /\ event' = ClickEvent(button, x, y)
    /\ UNCHANGED <<board, overflow_checks, pure_in, pure_out>>

---------------------------------------------------------------------------
(* draw *)

Draw ==
    /\ status = "running"
    /\ \E loaded \in {LoadBoard(board, GetBoard(game))} :
        /\ board' = loaded.val
        /\ status' = IF loaded.ok /\ DrawPiecesOk(loaded.val) THEN "running" ELSE "panicked"
        /\ calls' = IF loaded.ok
                    THEN <<Call("get_board", <<>>, <<>>, None),
                           Call("get_game_state", <<>>, <<>>, None)>>
                    ELSE <<Call("get_board", <<>>, <<>>, None)>>
    /\ event' = DrawEvent
    /\ UNCHANGED <<game, highlight_poses, highlight_piece, overflow_checks,
                   query, pure_in, pure_out>>

---------------------------------------------------------------------------
(* update: returns Ok(()) and changes nothing *)

Update ==
    /\ status = "running"
    /\ event' = UpdateEvent
    /\ calls' = <<>>
    /\ UNCHANGED <<board, game, highlight_poses, highlight_piece, status,
                   overflow_checks, query, pure_in, pure_out>>

---------------------------------------------------------------------------
(* The application: AppState::new, then events one at a time *)

NoneRow == <<None, None, None, None, None, None, None, None>>

\* [[None; 8]; 8]
EmptyBoard == <<NoneRow, NoneRow, NoneRow, NoneRow, NoneRow, NoneRow, NoneRow, NoneRow>>

Init ==
    /\ board = EmptyBoard
    /\ game = GameNew
    /\ highlight_poses = <<>>
    /\ highlight_piece = None
    /\ status = "running"
    /\ overflow_checks \in BOOLEAN
    /\ event = NoEvent
    /\ calls = <<>>
    /\ query = NoQuery
    /\ pure_in = PureIdle
    /\ pure_out = PureNone

LeftClick == \E x \in Pixels, y \in Pixels : MouseButtonUpEvent("Left", x, y)

OtherClick == \E button \in OtherButtons, p \in Pixels : MouseButtonUpEvent(button, p, p)

Next == LeftClick \/ OtherClick \/ Draw \/ Update

Spec == Init /\ [][Next]_vars

---------------------------------------------------------------------------
(* The snapshot rebuild on its own: draw on a board string in which one    *)
(* character, at any index, is any character of ParseChars                 *)

ParseChars ==
    {"k", "q", "b", "n", "r", "p", "K", "Q", "B", "N", "R", "P",
     "*", "x", "X", "1", "\n"}

InitParse ==
    /\ board = EmptyBoard
    /\ \E k \in 1 .. Len(StartBoard), c \in ParseChars :
           game = [GameNew EXCEPT !.board_str = [StartBoard EXCEPT ![k] = c]]
    /\ highlight_poses = <<>>
    /\ highlight_piece = None
    /\ status = "running"
    /\ overflow_checks \in BOOLEAN
    /\ event = NoEvent
    /\ calls = <<>>
    /\ query = NoQuery
    /\ pure_in = PureIdle
    /\ pure_out = PureNone

NextParse == Draw

SpecParse == InitParse /\ [][NextParse]_vars

---------------------------------------------------------------------------
(* The converters on their own: one call on one argument *)

\* coordinates 0..7 and the first one out of range
ConvCoords == 0 .. GRID_SIZE

ConvChars == {"A", "D", "H", "I", "a", "h", "Z", "0", "1", "4", "8", "9", "x", "*"}

ConvInputs ==
    {[fn |-> "square", sq |-> <<c, r>>, name |-> <<>>] : c \in ConvCoords, r \in ConvCoords}
    \cup {[fn |-> "name", sq |-> <<>>, name |-> <<a, b>>] : a \in ConvChars, b \in ConvChars}

InitConv ==
    /\ board = EmptyBoard
    /\ game = GameNew
    /\ highlight_poses = <<>>
    /\ highlight_piece = None
    /\ status = "running"
    /\ overflow_checks \in BOOLEAN
    /\ event = NoEvent
    /\ calls = <<>>
    /\ query = NoQuery
    /\ pure_in \in ConvInputs
    /\ pure_out = PureNone

ConvUnchanged ==
    UNCHANGED <<board, game, highlight_poses, highlight_piece, status,
                overflow_checks, event, calls, query, pure_in>>

CallToFileRank ==
    /\ pure_in.fn = "square" /\ pure_out.fn = "none"
    /\ \E r \in {ToFileRank(pure_in.sq[1], pure_in.sq[2], overflow_checks)} :
           pure_out' = [fn |-> "to_file_rank", ok |-> r.ok, sq |-> <<>>, name |-> r.val]
    /\ ConvUnchanged

CallToRowColumn ==
    /\ pure_in.fn = "name" /\ pure_out.fn = "none"
    /\ \E r \in {ToRowColumn(pure_in.name, overflow_checks)} :
           pure_out' = [fn |-> "to_row_column", ok |-> r.ok, sq |-> r.val, name |-> <<>>]
    /\ ConvUnchanged

\* to_row_column(&to_file_rank(column, row)) on a square of the board
CallRoundTrip ==
    /\ pure_in.fn = "square" /\ pure_out.fn = "none"
    /\ pure_in.sq[1] \in Idx /\ pure_in.sq[2] \in Idx
    /\ \E n \in {ToFileRank(pure_in.sq[1], pure_in.sq[2], overflow_checks)} :
       \E r \in {IF n.ok THEN ToRowColumn(n.val, overflow_checks) ELSE Panic} :
           pure_out' = [fn |-> "round_trip", ok |-> r.ok, sq |-> r.val, name |-> <<>>]
    /\ ConvUnchanged

NextConv == CallToFileRank \/ CallToRowColumn \/ CallRoundTrip

SpecConv == InitConv /\ [][NextConv]_vars

---------------------------------------------------------------------------
(* Properties *)

\* the window's board region, in pixels
InsideBoard(e) ==
    /\ 0 <= e.x /\ e.x < GRID_SIZE * GRID_CELL_SIZE
    /\ 0 <= e.y /\ e.y < GRID_SIZE * GRID_CELL_SIZE

\* the grid square of a click inside the board: column from x, row from y
ColumnOf(e) == e.x \div GRID_CELL_SIZE

RowOf(e) == e.y \div GRID_CELL_SIZE

MakeMoveCalls(cs) == SelectSeq(cs, LAMBDA c : c.op = "make_move")

\* the step is a primary-button click inside the board, handled by a running
\* application
LeftClickInside ==
    /\ status = "running"
    /\ event'.kind = "click" /\ event'.button = "Left"
    /\ InsideBoard(event')

\* C1: with a piece selected and highlights shown, a primary-button click on
\* a highlighted square issues exactly one make_move, from the name of the
\* selected piece's square to the name of the clicked square (row 0 = rank 8,
\* column 0 = file A), and leaves no selection and no highlights.
C1_MoveIssued ==
    [][(/\ LeftClickInside
        /\ ~IsNone(highlight_piece)
        /\ highlight_poses # <<>>
        /\ Contains(highlight_poses, <<ColumnOf(event'), RowOf(event')>>))
       => /\ Len(MakeMoveCalls(calls')) = 1
          /\ MakeMoveCalls(calls')[1].from =
                 SquareName(Unwrap(highlight_piece).position[1],
                            Unwrap(highlight_piece).position[2])
          /\ MakeMoveCalls(calls')[1].to = SquareName(RowOf(event'), ColumnOf(event'))
          /\ status' = "running"
          /\ highlight_piece' = None
          /\ highlight_poses' = <<>>]_vars

C1_Witness ==
    /\ event.kind = "click"
    /\ Len(MakeMoveCalls(calls)) = 1
    /\ game.ply = 1
    /\ highlight_piece = None /\ highlight_poses = <<>>

\* C2: to_row_column(to_file_rank(column, row)) = (column, row) for every
\* column and row in 0..7, components in the order of the arguments.
C2_RoundTrip ==
    pure_out.fn = "round_trip" => pure_out.ok /\ pure_out.sq = pure_in.sq

\* the clicked square gives nothing to select: it is empty, or holds a piece
\* of the side not to move, or an own piece the engine returns no move list for
NothingToSelect(row, col) ==
    \/ IsNone(At(board, row, col))
    \/ /\ ~IsNone(At(board, row, col))
       /\ \/ Unwrap(At(board, row, col)).is_white # IsWhiteTurn(game)
          \/ IsNone(GetPossibleMoves(game, SquareName(row, col)))

\* C3: a primary-button click inside the board on a square that is not
\* highlighted and gives nothing to select ends with no selected piece, no
\* highlights and no make_move.
C3_ClickClears ==
    [][(/\ LeftClickInside
        /\ ~Contains(highlight_poses, <<ColumnOf(event'), RowOf(event')>>)
        /\ NothingToSelect(RowOf(event'), ColumnOf(event')))
       => /\ highlight_piece' = None
          /\ highlight_poses' = <<>>
          /\ MakeMoveCalls(calls') = <<>>]_vars

\* C4: a primary-button click on a square that is not highlighted and holds
\* a piece of the side to move, for whose name the engine returns a move
\* list, sets the highlights to that list converted by to_row_column entry by
\* entry, in order, and remembers the piece on the clicked square.
C4_SelectHighlights ==
    [][(/\ LeftClickInside
        /\ ~Contains(highlight_poses, <<ColumnOf(event'), RowOf(event')>>)
        /\ ~IsNone(At(board, RowOf(event'), ColumnOf(event')))
        /\ Unwrap(At(board, RowOf(event'), ColumnOf(event'))).is_white = IsWhiteTurn(game)
        /\ ~IsNone(GetPossibleMoves(game, SquareName(RowOf(event'), ColumnOf(event')))))
       => LET moves == Unwrap(GetPossibleMoves(game,
                                  SquareName(RowOf(event'), ColumnOf(event'))))
          IN  /\ status' = "running"
              /\ Len(highlight_poses') = Len(moves)
              /\ \A k \in 1 .. Len(moves) :
                     highlight_poses'[k] = ToRowColumn(moves[k], overflow_checks).val
              /\ highlight_piece' = At(board, RowOf(event'), ColumnOf(event'))]_vars

C4_Witness ==
    /\ event.kind = "click"
    /\ Len(calls) = 2 /\ calls[2].op = "get_possible_moves"
    /\ ~IsNone(calls[2].ret)
    /\ Len(highlight_poses) = Len(Unwrap(calls[2].ret))
    /\ Len(highlight_poses) >= 2
    /\ ~IsNone(highlight_piece)

\* C5: a primary-button click outside the board region does not crash,
\* issues no engine call and leaves selection, highlights and snapshot as
\* they were.
C5_OutsideIsNoOp ==
    [][(/\ status = "running"
        /\ event'.kind = "click" /\ event'.button = "Left"
        /\ ~InsideBoard(event'))
       => /\ status' = "running"
          /\ calls' = <<>>
          /\ UNCHANGED <<highlight_piece, highlight_poses, board>>]_vars

PieceLetters == {"k", "q", "b", "n", "r", "p", "K", "Q", "B", "N", "R", "P"}

\* C6: after load_board, a square whose character is neither '*' nor a piece
\* letter holds no piece, and the rebuild did not fail.
C6_UnknownIsNoPiece ==
    event.kind = "draw" =>
        \A i \in Idx, j \in Idx :
            GetBoard(game)[9 * i + j + 1] \notin PieceLetters \cup {"*"}
                => status = "running" /\ IsNone(At(board, i, j))

\* C7: to_row_column fails for every two-character input whose first
\* character is not in A..H or whose second is not in 1..8, and never returns
\* a coordinate outside 0..7.
C7_InvalidNotationFails ==
    pure_out.fn = "to_row_column" =>
        /\ (pure_in.name[1] \notin {"A", "B", "C", "D", "E", "F", "G", "H"}
            \/ pure_in.name[2] \notin {"1", "2", "3", "4", "5", "6", "7", "8"})
              => ~pure_out.ok
        /\ pure_out.ok => pure_out.sq[1] \in Idx /\ pure_out.sq[2] \in Idx

RoleLetters ==
    {<<"k", "K", KING>>, <<"q", "Q", QUEEN>>, <<"b", "B", BISHOP>>,
     <<"n", "N", KNIGHT>>, <<"r", "R", ROOK>>, <<"p", "P", PAWN>>}

C9_HighlightsHaveSelection ==
    highlight_poses # <<>> => ~IsNone(highlight_piece)

C9_Witness ==
    /\ event.kind = "click"
    /\ highlight_poses # <<>>
    /\ ~IsNone(highlight_piece)
    /\ game.ply = 1

\* C10: every make_move(from, to) follows a get_possible_moves(from) that is
\* the latest query, returned to among its destinations, and was made with
\* no make_move issued since.
C10_MoveFollowsQuery ==
    [][\A k \in 1 .. Len(calls') :
           calls'[k].op = "make_move" =>
               /\ query.asked /\ query.fresh
               /\ query.from = calls'[k].from
               /\ ~IsNone(query.ret)
               /\ Contains(Unwrap(query.ret), calls'[k].to)]_vars

C10_Witness ==
    /\ event.kind = "click"
    /\ Len(MakeMoveCalls(calls)) = 1
    /\ query.asked /\ ~query.fresh
    /\ query.from = calls[1].from
    /\ game.ply = 1

====
